---------------------------- MODULE Spec2Model ----------------------------
(*
  Model of the three check scripts under src/scripts:

    check_copyright_headers.py   check_file and the walk over include, src, test
    check_header_guards.py       check_guards, check_dir and the final "and"
    check_coverage.py            the threshold check of a coverage summary

  A Python string is a sequence of tokens.  A token is one character, or a
  run of characters that the scripts only ever compare as a whole (a header
  line's text, "#ifndef ", ...).  Whitespace is always one token per
  character, so that rstrip, startswith, endswith, replace and upper are
  computed on the sequence as Python computes them on the string.
  Line and list indices are zero-based as in the source; element i of a
  list is seq[i + 1].
*)
EXTENDS Integers, Sequences, FiniteSets, TLC

VARIABLES
  script,       \* which program or function runs in this behaviour
  pc,           \* position of the running program
  lines,        \* check_file / check_guards: the list read by f.readlines()
  expected_header_guard, \* check_guards: its second argument
  ret,          \* the return value (or fault) of the function under check
  summary,      \* check_coverage: the report split at newlines
  cov,          \* check_coverage: pl, pf and coverage_met once computed
  tree,         \* the walks: per root directory, the names os.walk yields
  di,           \* the walks: index of the root directory being walked
  ni,           \* the walks: index of the next name in that directory
  all_good,     \* module-level all_good
  cd_all_good,  \* check_dir's local all_good
  checked,      \* history: the per-file checks performed so far, in order
  exit_code     \* the process exit status, -1 while running

vars == <<script, pc, lines, expected_header_guard, ret, summary, cov,
          tree, di, ni, all_good, cd_all_good, checked, exit_code>>

-----------------------------------------------------------------------------
(* Python string primitives *)

Whitespace == {" ", "\n", "\t"}

Min(a, b) == IF a < b THEN a ELSE b

RECURSIVE RStrip(_)
RStrip(s) ==
  IF s = <<>> THEN <<>>
  ELSE IF s[Len(s)] \in Whitespace THEN RStrip(SubSeq(s, 1, Len(s) - 1))
  ELSE s

StartsWith(s, p) == Len(s) >= Len(p) /\ SubSeq(s, 1, Len(p)) = p

EndsWith(s, p) ==
  Len(s) >= Len(p) /\ SubSeq(s, Len(s) - Len(p) + 1, Len(s)) = p

\* s.replace(old, new) for a one-character old.
Replace(s, old, new) == [i \in 1..Len(s) |-> IF s[i] = old THEN new ELSE s[i]]

UpperChar(c) ==
  CASE c = "a" -> "A"
    [] c = "b" -> "B"
    [] c = "c" -> "C"
    [] c = "h" -> "H"
    [] OTHER   -> c

Upper(s) == [i \in 1..Len(s) |-> UpperChar(s[i])]

-----------------------------------------------------------------------------
(* check_copyright_headers.py *)

\* header.rstrip().split("\n"): the sixteen lines of the template.
expected_header == <<
  <<"/* SCL --- Secure Computation Library">>,
  <<" * ---- THIS LINE IS IGNORED ----">>,
  <<" *">>,
  <<" * This program is free software: you can redistribute it and/or modify">>,
  <<" * it under the terms of the GNU Affero General Public License as published by">>,
  <<" * the Free Software Foundation, either version 3 of the License, or">>,
  <<" * (at your option) any later version.">>,
  <<" *">>,
  <<" * This program is distributed in the hope that it will be useful,">>,
  <<" * but WITHOUT ANY WARRANTY; without even the implied warranty of">>,
  <<" * MERCHANTABILITY or FITNESS FOR A PARTICULAR PURPOSE.  See the">>,
  <<" * GNU Affero General Public License for more details.">>,
  <<" *">>,
  <<" * You should have received a copy of the GNU Affero General Public License">>,
  <<" * along with this program.  If not, see <https://www.gnu.org/licenses/>.">>,
  <<" */">> >>

CopyrightText == " * Copyright (C) "

copyright_line == <<CopyrightText, "2023">>

\* The test of one loop iteration: TRUE when line b is accepted at index n.
LineMatchesAsTemplate(n, a, b) == RStrip(a) = RStrip(b)

LineMatches(n, a, b) ==
  IF n = 1 THEN StartsWith(b, copyright_line)
  ELSE RStrip(a) = RStrip(b)

\* The for loop over zip(expected_header, lines), entered with counter n.
\* Yields good, the final n and the indices of the lines it compared.
RECURSIVE CheckLoopNoBreak(_, _, _, _)
CheckLoopNoBreak(ls, n, good, compared) ==
  IF n >= Min(Len(expected_header), Len(ls))
    THEN [good |-> good, n |-> n, compared |-> compared]
  ELSE CheckLoopNoBreak(ls, n + 1,
                        good /\ LineMatches(n, expected_header[n + 1], ls[n + 1]),
                        compared \cup {n})

RECURSIVE CheckLoop(_, _, _, _)
CheckLoop(ls, n, good, compared) ==
  IF n >= Min(Len(expected_header), Len(ls))
    THEN [good |-> good, n |-> n, compared |-> compared]
  ELSE IF ~LineMatches(n, expected_header[n + 1], ls[n + 1])
    THEN [good |-> FALSE, n |-> n, compared |-> compared \cup {n}]
  ELSE CheckLoop(ls, n + 1, good, compared \cup {n})

\* check_file on the list f.readlines() returned.  status is "pass" (returns
\* True), "fail" (prints the diagnostic with n and returns False) or
\* "IndexError" (lines[n] is out of range and the exception propagates).
check_file(file) ==
  LET ls   == SubSeq(file, 1, Min(Len(file), Len(expected_header) + 1))
      loop == CheckLoop(ls, 0, TRUE, {})
  IN  IF ~loop.good
        THEN [status |-> "fail", n |-> loop.n, compared |-> loop.compared]
      ELSE IF loop.n >= Len(ls)
        THEN [status |-> "IndexError", n |-> loop.n, compared |-> loop.compared]
      ELSE [status   |-> IF RStrip(ls[loop.n + 1]) = <<>> THEN "pass" ELSE "fail",
            n        |-> loop.n,
            compared |-> loop.compared \cup {loop.n}]

-----------------------------------------------------------------------------
(* Inputs of check_file: the files it is applied to *)

MaxLines == 18

NoRet == [status |-> "none"]

\* Line i of a file that carries the header, a blank line and then code.
GoodLine(i) ==
  IF i = 1 THEN copyright_line \o <<"\n">>
  ELSE IF i < Len(expected_header) THEN expected_header[i + 1] \o <<"\n">>
  ELSE IF i = Len(expected_header) THEN <<"\n">>
  ELSE <<"int x;", "\n">>

JunkLine == <<"// junk", "\n">>

\* What a file may hold at line i instead of GoodLine(i).
Variants(i) ==
  {JunkLine, <<" *", "\n">>, <<" ", "\t", "\n">>,
   SubSeq(GoodLine(i), 1, Len(GoodLine(i)) - 1),
   SubSeq(GoodLine(i), 1, Len(GoodLine(i)) - 1) \o <<" ", "\n">>}
  \cup (IF i = 1
          THEN {<<CopyrightText, "2022", "\n">>,
                <<CopyrightText, "2024", "\n">>,
                <<CopyrightText, "2023", " ", "A. U. Thor", "\n">>,
                <<" ", CopyrightText, "2023", "\n">>,
                expected_header[2] \o <<"\n">>}
          ELSE {})

\* A file of len lines: GoodLine everywhere but v at line d1 and junk at d2
\* (an index of -1 changes nothing).
MakeFile(len, d1, v, d2) ==
  [j \in 1..len |->
     IF j - 1 = d1 THEN v ELSE IF j - 1 = d2 THEN JunkLine ELSE GoodLine(j - 1)]

Files ==
  {MakeFile(len, -1, JunkLine, -1) : len \in 0..MaxLines}
  \cup UNION {UNION {{MakeFile(len, d1, v, d2) :
                        len \in 0..MaxLines, d2 \in {-1} \cup (d1 + 1)..(MaxLines - 1)}
                     : v \in Variants(d1)}
              : d1 \in 0..(MaxLines - 1)}

-----------------------------------------------------------------------------
(* The specification that applies check_file to every file of Files *)

InitFile ==
  /\ script = "check_file"
  /\ pc = "call"
  /\ lines \in Files
  /\ expected_header_guard = <<>>
  /\ ret = NoRet
  /\ summary = <<>>
  /\ cov = NoRet
  /\ tree = <<>>
  /\ di = 0
  /\ ni = 0
  /\ all_good = TRUE
  /\ cd_all_good = TRUE
  /\ checked = <<>>
  /\ exit_code = -1

CallCheckFile ==
  /\ script = "check_file"
  /\ pc = "call"
  /\ ret' = check_file(lines)
  /\ pc' = "returned"
  /\ UNCHANGED <<script, lines, expected_header_guard, summary, cov, tree, di,
                 ni, all_good, cd_all_good, checked, exit_code>>

NextFile == CallCheckFile

SpecFile == InitFile /\ [][NextFile]_vars

-----------------------------------------------------------------------------
(* Properties of check_file, under SpecFile *)

HeaderLen == Len(expected_header)

\* Every header line but the copyright line equals the template's, trailing
\* whitespace aside.
TemplateLinesMatch(ls) ==
  /\ Len(ls) >= HeaderLen
  /\ \A i \in 0..(HeaderLen - 1) : i # 1 => RStrip(ls[i + 1]) = expected_header[i + 1]

BlankAfterHeader(ls) == Len(ls) > HeaderLen /\ RStrip(ls[HeaderLen + 1]) = <<>>

Years == {"2022", "2023", "2024"}

CopyrightAnyYear(b) == RStrip(b) \in {<<CopyrightText, y>> : y \in Years}

\* C2 as stated: a file that carries the template, a copyright line
\* " * Copyright (C) <year>" of any year and then a blank line passes.
C2_AnyYearPasses ==
  (/\ pc = "returned"
   /\ TemplateLinesMatch(lines)
   /\ CopyrightAnyYear(lines[2])
   /\ BlankAfterHeader(lines))
  => ret.status = "pass"

\* C2 as amended: a file that carries the template, a line at index 1 that
\* starts with " * Copyright (C) 2023" and then a blank line passes.
C2_Year2023Passes ==
  (/\ pc = "returned"
   /\ TemplateLinesMatch(lines)
   /\ StartsWith(lines[2], copyright_line)
   /\ BlankAfterHeader(lines))
  => ret.status = "pass"

C2_Witness ==
  /\ pc = "returned"
  /\ TemplateLinesMatch(lines)
  /\ StartsWith(lines[2], copyright_line)
  /\ RStrip(lines[2]) # copyright_line
  /\ BlankAfterHeader(lines)
  /\ ret.status = "pass"

\* C3: a file whose header block is not followed by a blank line (the next
\* line is not blank, or there is no next line) makes check_file return fail.
C3_NoBlankLineFails ==
  (/\ pc = "returned"
   /\ TemplateLinesMatch(lines)
   /\ StartsWith(lines[2], copyright_line)
   /\ ~BlankAfterHeader(lines))
  => ret.status = "fail"

\* C6: a file with fewer lines than the header block, the empty file
\* included, makes check_file return fail instead of faulting.
C6_ShortFileFails ==
  (pc = "returned" /\ Len(lines) < HeaderLen) => ret.status = "fail"

\* Line i of the file differs from what the template asks at index i.
Mismatch(ls, i) ==
  IF i = 1 THEN ~StartsWith(ls[i + 1], copyright_line)
  ELSE IF i = HeaderLen THEN RStrip(ls[i + 1]) # <<>>
  ELSE RStrip(ls[i + 1]) # RStrip(expected_header[i + 1])

\* C9: when check_file returns fail, the n it reports is the smallest index
\* whose line differs from the template, and no line after n was compared.
C9_FirstMismatchReported ==
  (pc = "returned" /\ ret.status = "fail")
  => /\ ret.n < Len(lines)
     /\ ret.n <= HeaderLen
     /\ Mismatch(lines, ret.n)
     /\ \A j \in 0..(ret.n - 1) : ~Mismatch(lines, j)
     /\ \A c \in ret.compared : c <= ret.n

\* A fail at an index past 1 in a file that differs again further down.
C9_Witness ==
  /\ pc = "returned"
  /\ ret.status = "fail"
  /\ ret.n > 1
  /\ \E j \in (ret.n + 1)..Min(HeaderLen, Len(lines) - 1) : Mismatch(lines, j)

-----------------------------------------------------------------------------
(* check_header_guards.py: check_guards *)

Ifndef(g) == <<"#ifndef", " ">> \o g

Define(g) == <<"#define", " ">> \o g

Endif(g) == <<"#endif", " ", " ", "//", " ">> \o g

\* The while loop of check_guards, entered with counter i.  found is FALSE
\* when the loop ends by its condition (the else branch runs); a subscript
\* out of range raises IndexError.
RECURSIVE ScanGuardsToEnd(_, _, _)
ScanGuardsToEnd(ls, g, i) ==
  IF ~(i < Len(ls))
    THEN [found |-> FALSE, fault |-> FALSE, opening_header |-> FALSE, i |-> i]
  ELSE IF RStrip(ls[i + 1]) = Ifndef(g)
    THEN IF i + 1 >= Len(ls)
           THEN [found |-> TRUE, fault |-> TRUE, opening_header |-> FALSE, i |-> i]
         ELSE [found |-> TRUE, fault |-> FALSE,
               opening_header |-> (RStrip(ls[i + 2]) = Define(g)), i |-> i]
  ELSE ScanGuardsToEnd(ls, g, i + 1)

RECURSIVE ScanGuardsAnyPair(_, _, _)
ScanGuardsAnyPair(ls, g, i) ==
  IF ~(i < Len(ls) - 1)
    THEN [found |-> FALSE, fault |-> FALSE, opening_header |-> FALSE, i |-> i]
  ELSE IF RStrip(ls[i + 1]) = Ifndef(g) /\ RStrip(ls[i + 2]) = Define(g)
    THEN [found |-> TRUE, fault |-> FALSE, opening_header |-> TRUE, i |-> i]
  ELSE ScanGuardsAnyPair(ls, g, i + 1)

RECURSIVE ScanGuards(_, _, _)
ScanGuards(ls, g, i) ==
  IF ~(i < Len(ls) - 1)
    THEN [found |-> FALSE, fault |-> FALSE, opening_header |-> FALSE, i |-> i]
  ELSE IF RStrip(ls[i + 1]) = Ifndef(g)
    THEN IF i + 1 >= Len(ls)
           THEN [found |-> TRUE, fault |-> TRUE, opening_header |-> FALSE, i |-> i]
         ELSE [found |-> TRUE, fault |-> FALSE,
               opening_header |-> (RStrip(ls[i + 2]) = Define(g)), i |-> i]
  ELSE ScanGuards(ls, g, i + 1)

\* check_guards on the list f.readlines() returned.  status is "pass"
\* (returns True), "fail" (returns False) or "IndexError"; diag is what it
\* printed first.
check_guards(ls, g) ==
  LET scan == ScanGuards(ls, g, 0)
  IN  IF scan.fault
        THEN [status |-> "IndexError", diag |-> "none", i |-> scan.i]
      ELSE IF ~scan.found
        THEN [status |-> "fail", diag |-> "No opening header", i |-> scan.i]
      ELSE IF ~scan.opening_header
        THEN [status |-> "fail", diag |-> "invalid header", i |-> scan.i]
      ELSE IF Len(ls) = 0
        THEN [status |-> "IndexError", diag |-> "none", i |-> scan.i]
      ELSE IF RStrip(ls[Len(ls)]) = Endif(g)
        THEN [status |-> "pass", diag |-> "none", i |-> scan.i]
      ELSE [status |-> "fail", diag |-> "invalid header", i |-> scan.i]

\* The guard symbol check_dir derives from a file's path below the root.
GuardSymbolKeepDots(rel) == Upper(Replace(rel, "/", "_"))

GuardSymbol(rel) == Upper(Replace(Replace(rel, "/", "_"), ".", "_"))

-----------------------------------------------------------------------------
(* Inputs of check_guards, and the specification that applies it to them *)

MaxGuardLines == 4

LowerChar(c) ==
  CASE c = "A" -> "a"
    [] c = "B" -> "b"
    [] c = "C" -> "c"
    [] c = "H" -> "h"
    [] OTHER   -> c

Lower(s) == [i \in 1..Len(s) |-> LowerChar(s[i])]

EndifOneSpace(g) == <<"#endif", " ", "//", " ">> \o g

\* The lines a header file is made of, for the guard symbol g.
GuardLines(g) ==
  {Ifndef(g) \o <<"\n">>, Define(g) \o <<"\n">>, Endif(g) \o <<"\n">>,
   Endif(g), Ifndef(g) \o <<" ", "\n">>, EndifOneSpace(g) \o <<"\n">>,
   Ifndef(Lower(g)) \o <<"\n">>, Define(Lower(g)) \o <<"\n">>,
   Endif(Lower(g)) \o <<"\n">>, <<"int x;", "\n">>}

GuardFiles(g) ==
  UNION {[1..len -> GuardLines(g)] : len \in 0..MaxGuardLines}

InitGuards ==
  /\ script = "check_guards"
  /\ pc = "call"
  /\ expected_header_guard = GuardSymbol(<<"a", ".", "h">>)
  /\ lines \in GuardFiles(expected_header_guard)
  /\ ret = NoRet
  /\ summary = <<>>
  /\ cov = NoRet
  /\ tree = <<>>
  /\ di = 0
  /\ ni = 0
  /\ all_good = TRUE
  /\ cd_all_good = TRUE
  /\ checked = <<>>
  /\ exit_code = -1

CallCheckGuards ==
  /\ script = "check_guards"
  /\ pc = "call"
  /\ ret' = check_guards(lines, expected_header_guard)
  /\ pc' = "returned"
  /\ UNCHANGED <<script, lines, expected_header_guard, summary, cov, tree, di,
                 ni, all_good, cd_all_good, checked, exit_code>>

NextGuards == CallCheckGuards

SpecGuards == InitGuards /\ [][NextGuards]_vars

-----------------------------------------------------------------------------
(* Properties of check_guards, under SpecGuards *)

IsIfndef(ls, g, i) == RStrip(ls[i + 1]) = Ifndef(g)

IsDefine(ls, g, i) == RStrip(ls[i + 1]) = Define(g)

EndsWithEndif(ls, g) == Len(ls) > 0 /\ RStrip(ls[Len(ls)]) = Endif(g)

\* The file with the letters of line j turned to lower case.
Recase(ls, j) == [k \in 1..Len(ls) |-> IF k = j + 1 THEN Lower(ls[k]) ELSE ls[k]]

\* The file with the letters of every line turned to lower case.
RecaseAll(ls) == [k \in 1..Len(ls) |-> Lower(ls[k])]

\* C4 as stated: a file passes exactly when some adjacent pair of lines is
\* "#ifndef SYM", "#define SYM" and its last line is "#endif  // SYM".
C4_PassIffAnyPair ==
  pc = "returned" =>
    (ret.status = "pass" <=>
       /\ \E i \in 0..(Len(lines) - 2) :
            IsIfndef(lines, expected_header_guard, i)
            /\ IsDefine(lines, expected_header_guard, i + 1)
       /\ EndsWithEndif(lines, expected_header_guard))

\* C4 as amended: a file passes exactly when the first line, the last line
\* excluded, that is "#ifndef SYM" is directly followed by "#define SYM" and
\* the last line is "#endif  // SYM" (trailing whitespace aside); a passing
\* file fails once the symbol's case is changed in all its lines, or in that
\* "#define" line or the last line alone.
C4_PassIffFirstIfndefPair ==
  pc = "returned" =>
    /\ ret.status = "pass" <=>
         /\ \E i \in 0..(Len(lines) - 2) :
              /\ IsIfndef(lines, expected_header_guard, i)
              /\ \A j \in 0..(i - 1) : ~IsIfndef(lines, expected_header_guard, j)
              /\ IsDefine(lines, expected_header_guard, i + 1)
         /\ EndsWithEndif(lines, expected_header_guard)
    /\ ret.status = "pass" =>
         /\ check_guards(RecaseAll(lines), expected_header_guard).status = "fail"
         /\ \A j \in {ret.i + 1, Len(lines) - 1} :
              check_guards(Recase(lines, j), expected_header_guard).status = "fail"

C4_Witness ==
  /\ pc = "returned"
  /\ ret.status = "pass"
  /\ ret.i > 0
  /\ Len(lines) > ret.i + 2

\* C10: when no line before the last is "#ifndef SYM", check_guards reports
\* "No opening header" and returns fail; and whatever the file holds, the
\* empty and the one-line file included, it returns a boolean and does not
\* fault on a subscript.
C10_NoOpeningHeader ==
  pc = "returned" =>
    /\ ret.status \in {"pass", "fail"}
    /\ (\A i \in 0..(Len(lines) - 2) : ~IsIfndef(lines, expected_header_guard, i))
         => (ret.status = "fail" /\ ret.diag = "No opening header")

\* The scan reaches end-of-file on a file whose only "#ifndef SYM" is its
\* last line.
C10_Witness ==
  /\ pc = "returned"
  /\ Len(lines) > 0
  /\ IsIfndef(lines, expected_header_guard, Len(lines) - 1)
  /\ ret.status = "fail"
  /\ ret.diag = "No opening header"

-----------------------------------------------------------------------------
(* check_coverage.py.  A report line is a sequence of single characters drawn
   from ReportChars; a percentage is held in tenths, 96.4 as 964. *)

line_threshold == 950

function_threshold == 800

Digit == {"0", "1", "2", "3", "4", "5", "6", "7", "8", "9"}

ReportChars == Digit \cup {"L", "F", ":", " ", "x", ".", "%"}

DigitVal(c) ==
  CASE c = "0" -> 0 [] c = "1" -> 1 [] c = "2" -> 2 [] c = "3" -> 3
    [] c = "4" -> 4 [] c = "5" -> 5 [] c = "6" -> 6 [] c = "7" -> 7
    [] c = "8" -> 8 [] c = "9" -> 9

\* int() of a string of digits.
RECURSIVE IntOf(_)
IntOf(s) ==
  IF s = <<>> THEN 0
  ELSE 10 * IntOf(SubSeq(s, 1, Len(s) - 1)) + DigitVal(s[Len(s)])

\* The text "[0-9]?[0-9][0-9].[0-9]%" matches at position i of s (from 1),
\* or <<>>: the optional digit is tried first, then left out.
MatchAt(s, i) ==
  IF /\ i + 5 <= Len(s)
     /\ {s[i], s[i + 1], s[i + 2], s[i + 4]} \subseteq Digit
     /\ s[i + 5] = "%"
    THEN SubSeq(s, i, i + 5)
  ELSE IF /\ i + 4 <= Len(s)
          /\ {s[i], s[i + 1], s[i + 3]} \subseteq Digit
          /\ s[i + 4] = "%"
    THEN SubSeq(s, i, i + 4)
  ELSE <<>>

\* re.findall(...)[0]: the leftmost match in s from position i on, <<>> when
\* findall returns the empty list.
RECURSIVE FirstMatch(_, _)
FirstMatch(s, i) ==
  IF i > Len(s) THEN <<>>
  ELSE IF MatchAt(s, i) # <<>> THEN MatchAt(s, i)
  ELSE FirstMatch(s, i + 1)

\* float(m[:-1]) in tenths for a match m over ReportChars, -1 when float()
\* raises ValueError.  The character the pattern's "." matched is the last
\* but two of m.
FloatOfMatch(m) ==
  LET text == SubSeq(m, 1, Len(m) - 1)
      sep  == text[Len(text) - 1]
  IN  IF sep = "."
        THEN 10 * IntOf(SubSeq(text, 1, Len(text) - 2)) + DigitVal(text[Len(text)])
      ELSE IF sep \in Digit THEN 10 * IntOf(text)
      ELSE -1

\* Lines 11 to 15: the two percentages, or the exception that ends the run.
ParseSummary(sm) ==
  IF Len(sm) < 4 THEN [status |-> "IndexError"]
  ELSE LET ml == FirstMatch(sm[3], 1)
           mf == FirstMatch(sm[4], 1)
       IN  IF ml = <<>> THEN [status |-> "IndexError"]
           ELSE IF mf = <<>> THEN [status |-> "IndexError"]
           ELSE IF FloatOfMatch(ml) < 0 THEN [status |-> "ValueError"]
           ELSE IF FloatOfMatch(mf) < 0 THEN [status |-> "ValueError"]
           ELSE [status |-> "parsed", pl |-> FloatOfMatch(ml), pf |-> FloatOfMatch(mf)]

CoverageMetNonStrict(pl, pf) == pl >= line_threshold /\ pf >= function_threshold

CoverageMet(pl, pf) == pl > line_threshold /\ pf > function_threshold

-----------------------------------------------------------------------------
(* Inputs of check_coverage and its specification *)

MaxSummaryLines == 5

PctLine(label, h, t, u, sep, f) == <<label, ":", " ">> \o h \o <<t, u, sep, f, "%">>

PctLines(label) ==
  {PctLine(label, h, t, u, sep, f) :
     h \in {<<>>, <<"1">>}, t \in {"8", "9"}, u \in {"0", "5", "6"},
     sep \in {".", "x", "5"}, f \in {"0", "1", "4"}}
  \cup {<<label, ":", " ", "9", ".", "5", "%">>, <<label, ":", " ", "x">>}

Summaries ==
  {SubSeq(<<<<"x">>, <<"x">>, l, f>> \o [i \in 1..(MaxSummaryLines - 4) |-> <<>>],
          1, len) :
     l \in PctLines("L"), f \in PctLines("F"), len \in 0..MaxSummaryLines}

InitCoverage ==
  /\ script = "check_coverage"
  /\ pc = "parse"
  /\ summary \in Summaries
  /\ cov = NoRet
  /\ lines = <<>>
  /\ expected_header_guard = <<>>
  /\ ret = NoRet
  /\ tree = <<>>
  /\ di = 0
  /\ ni = 0
  /\ all_good = TRUE
  /\ cd_all_good = TRUE
  /\ checked = <<>>
  /\ exit_code = -1

\* Lines 11 to 15; an uncaught exception ends the process with status 1.
CoverageParse ==
  /\ script = "check_coverage"
  /\ pc = "parse"
  /\ cov' = ParseSummary(summary)
  /\ IF cov'.status = "parsed"
       THEN pc' = "compare" /\ exit_code' = exit_code
       ELSE pc' = "done" /\ exit_code' = 1
  /\ UNCHANGED <<script, lines, expected_header_guard, ret, summary, tree, di,
                 ni, all_good, cd_all_good, checked>>

\* Lines 20 to 25.
CoverageExit ==
  /\ script = "check_coverage"
  /\ pc = "compare"
  /\ exit_code' = IF CoverageMet(cov.pl, cov.pf) THEN 0 ELSE 1
  /\ pc' = "done"
  /\ UNCHANGED <<script, lines, expected_header_guard, ret, summary, cov, tree,
                 di, ni, all_good, cd_all_good, checked>>

NextCoverage == CoverageParse \/ CoverageExit

SpecCoverage == InitCoverage /\ [][NextCoverage]_vars

-----------------------------------------------------------------------------
(* Properties of check_coverage, under SpecCoverage *)

\* The percentage, in tenths, that a line "X: [d]dd.d%" shows, -1 for any
\* other line.
Shown(l) ==
  IF Len(l) = 8 /\ {l[4], l[5], l[7]} \subseteq Digit /\ l[6] = "." /\ l[8] = "%"
    THEN 100 * DigitVal(l[4]) + 10 * DigitVal(l[5]) + DigitVal(l[7])
  ELSE IF Len(l) = 9 /\ {l[4], l[5], l[6], l[8]} \subseteq Digit /\ l[7] = "."
          /\ l[9] = "%"
    THEN 1000 * DigitVal(l[4]) + 100 * DigitVal(l[5]) + 10 * DigitVal(l[6])
         + DigitVal(l[8])
  ELSE -1

\* C5: the run exits 0 only if the percentages of report lines 2 and 3 meet
\* 95.0 and 80.0; 96.4 and 85.0 exit 0; a percentage equal to its threshold
\* exits 1, the comparison being strict.
C5_CoverageThresholds ==
  pc = "done" =>
    /\ exit_code \in {0, 1}
    /\ exit_code = 0 =>
         /\ cov.status = "parsed"
         /\ cov.pl >= 950 /\ cov.pf >= 800
         /\ Shown(summary[3]) \in {-1, cov.pl}
         /\ Shown(summary[4]) \in {-1, cov.pf}
    /\ (Len(summary) >= 4 /\ Shown(summary[3]) = 964 /\ Shown(summary[4]) = 850)
         => exit_code = 0
    /\ (Len(summary) >= 4 /\ (Shown(summary[3]) = 950 \/ Shown(summary[4]) = 800))
         => exit_code = 1

\* Lines exactly at 95.0 with functions above 80.0: the run exits 1.
C5_Witness ==
  /\ pc = "done"
  /\ Len(summary) >= 4
  /\ Shown(summary[3]) = 950
  /\ Shown(summary[4]) = 850
  /\ exit_code = 1

-----------------------------------------------------------------------------
(* The two walks over the file tree.

   tree[d] is what os.walk yields below root directory d, flattened: one
   entry per file name, in walk order, with the directory path os.walk
   reports for it (the root's name, then "/sub" for a subdirectory), the
   name n and the file the path leads to. *)

Str(root) ==
  CASE root = "include" -> <<"i", "n", "c", "l", "u", "d", "e">>
    [] root = "src"     -> <<"s", "r", "c">>
    [] root = "test"    -> <<"t", "e", "s", "t">>

directories_to_check == <<"include", "src", "test">>

guard_directories == <<"include", "src">>

Roots(s) == IF s = "copyright" THEN directories_to_check ELSE guard_directories

\* os.path.join(a, b) for a relative b.
PathJoin(a, b) ==
  IF a = <<>> THEN b
  ELSE IF a[Len(a)] = "/" THEN a \o b
  ELSE a \o <<"/">> \o b

\* s[k:] of Python.
SliceFrom(s, k) == SubSeq(s, Min(k, Len(s)) + 1, Len(s))

\* Lines 38 and 43 to 46 of check_header_guards.py: the symbol for name n
\* found in directory path while walking dirname.
ExpectedGuard(dirname, path, n) ==
  LET to_truncate    == Len(dirname) + 1
      truncated_path == SliceFrom(path, to_truncate)
  IN  GuardSymbol(PathJoin(truncated_path, n))

\* The file a content name stands for, as f.readlines() returns it.
GuardFile(g) ==
  <<Ifndef(g) \o <<"\n">>, Define(g) \o <<"\n">>, <<"int x;", "\n">>,
    Endif(g) \o <<"\n">>>>

ReadLines(s, content) ==
  IF s = "copyright"
    THEN CASE content = "good"  -> MakeFile(HeaderLen + 2, -1, JunkLine, -1)
           [] content = "bad"   -> MakeFile(HeaderLen + 2, 3, JunkLine, -1)
           [] content = "empty" -> <<>>
    ELSE CASE content = "good"  -> GuardFile(<<"A", "_", "B", "_", "H">>)
           [] content = "bad"   -> GuardFile(<<"A", "_", "H">>)
           [] content = "empty" -> <<>>

\* Lines 57, 58 (and 48, 49): the aggregate after one more per-file result.
AggregateLast(good, ok) == ok

Aggregate(good, ok) == IF ~ok THEN FALSE ELSE good

IsCopyrightCandidate(n) ==
  EndsWith(n, <<".", "h">>) \/ EndsWith(n, <<".", "c", "c">>)

IsGuardCandidate(n) == EndsWith(n, <<".", "h">>)

-----------------------------------------------------------------------------
(* Inputs of the walks *)

MaxFiles == 2

Contents == {"good", "bad", "empty"}

\* Where a file may be: the subdirectory below the root and the name.
Places ==
  {<< <<>>, <<"a", ".", "h">> >>,
   << <<>>, <<"a", "_", "b", ".", "h">> >>,
   << <<>>, <<"a", ".", "b", ".", "h">> >>,
   << <<"/", "a">>, <<"b", ".", "h">> >>,
   << <<"/", "A">>, <<"B", ".", "h">> >>,
   << <<>>, <<"a", ".", "c", "c">> >>,
   << <<>>, <<"a", ".", "c">> >>}

\* The flat listings of at most MaxFiles files: root index, place, content.
Listings(s) ==
  UNION {[1..len -> (1..Len(Roots(s))) \X Places \X Contents] :
           len \in 0..MaxFiles}

\* A listing os.walk can produce: roots in order, a root's own files before
\* its subdirectories', a directory's files together, no path twice.
WalkOrder(l) ==
  /\ \A i, j \in 1..Len(l) : i < j =>
       /\ l[i][1] <= l[j][1]
       /\ <<l[i][1], l[i][2]>> # <<l[j][1], l[j][2]>>
       /\ (l[i][1] = l[j][1] /\ l[i][2][1] # <<>>) => l[j][2][1] # <<>>
  /\ \A i, j, k \in 1..Len(l) :
       (i < j /\ j < k /\ l[i][1] = l[k][1] /\ l[i][2][1] = l[k][2][1])
         => (l[j][1] = l[i][1] /\ l[j][2][1] = l[i][2][1])

Entry(s, x) ==
  [path |-> Str(Roots(s)[x[1]]) \o x[2][1], n |-> x[2][2], content |-> x[3]]

RECURSIVE EntriesOf(_, _, _)
EntriesOf(s, l, d) ==
  IF l = <<>> THEN <<>>
  ELSE IF l[1][1] = d THEN <<Entry(s, l[1])>> \o EntriesOf(s, Tail(l), d)
  ELSE EntriesOf(s, Tail(l), d)

TreeOf(s, l) == [d \in 1..Len(Roots(s)) |-> EntriesOf(s, l, d)]

Trees(s) == {TreeOf(s, l) : l \in {x \in Listings(s) : WalkOrder(x)}}

-----------------------------------------------------------------------------
(* The specification of the two scripts' runs *)

Init ==
  /\ script \in {"copyright", "guards"}
  /\ pc = "walk"
  /\ tree \in Trees(script)
  /\ di = 1
  /\ ni = 0
  /\ all_good = TRUE
  /\ cd_all_good = TRUE
  /\ checked = <<>>
  /\ exit_code = -1
  /\ lines = <<>>
  /\ expected_header_guard = <<>>
  /\ ret = NoRet
  /\ summary = <<>>
  /\ cov = NoRet

\* check_copyright_headers.py lines 54 to 58: one name of the inner loop.
\* An IndexError out of check_file ends the process with status 1.
CopyrightVisit ==
  /\ script = "copyright"
  /\ pc = "walk"
  /\ di <= Len(directories_to_check)
  /\ ni < Len(tree[di])
  /\ LET e == tree[di][ni + 1]
         r == check_file(ReadLines(script, e.content))
     IN  IF ~IsCopyrightCandidate(e.n)
           THEN /\ ni' = ni + 1
                /\ UNCHANGED <<pc, all_good, checked, exit_code>>
         ELSE /\ checked' = Append(checked,
                   [d |-> di, i |-> ni, status |-> r.status, guard |-> <<>>])
              /\ IF r.status = "IndexError"
                   THEN /\ pc' = "done"
                        /\ exit_code' = 1
                        /\ UNCHANGED <<ni, all_good>>
                   ELSE /\ all_good' = Aggregate(all_good, r.status = "pass")
                        /\ ni' = ni + 1
                        /\ UNCHANGED <<pc, exit_code>>
  /\ UNCHANGED <<script, tree, di, cd_all_good, lines, expected_header_guard,
                 ret, summary, cov>>

\* Lines 52, 53: os.walk(d) is exhausted, the outer loop takes the next d.
CopyrightNextDir ==
  /\ script = "copyright"
  /\ pc = "walk"
  /\ di <= Len(directories_to_check)
  /\ ni = Len(tree[di])
  /\ di' = di + 1
  /\ ni' = 0
  /\ UNCHANGED <<script, pc, tree, all_good, cd_all_good, checked, exit_code,
                 lines, expected_header_guard, ret, summary, cov>>

\* Line 61.
CopyrightExit ==
  /\ script = "copyright"
  /\ pc = "walk"
  /\ di > Len(directories_to_check)
  /\ exit_code' = IF all_good THEN 0 ELSE 1
  /\ pc' = "done"
  /\ UNCHANGED <<script, tree, di, ni, all_good, cd_all_good, checked, lines,
                 expected_header_guard, ret, summary, cov>>

\* check_header_guards.py lines 41 to 49: one name of check_dir's loop.
GuardsVisit ==
  /\ script = "guards"
  /\ pc = "walk"
  /\ ni < Len(tree[di])
  /\ LET e == tree[di][ni + 1]
         g == ExpectedGuard(Str(guard_directories[di]), e.path, e.n)
         r == check_guards(ReadLines(script, e.content), g)
     IN  IF ~IsGuardCandidate(e.n)
           THEN /\ ni' = ni + 1
                /\ UNCHANGED <<pc, cd_all_good, checked, exit_code>>
         ELSE /\ checked' = Append(checked,
                   [d |-> di, i |-> ni, status |-> r.status, guard |-> g])
              /\ IF r.status = "IndexError"
                   THEN /\ pc' = "done"
                        /\ exit_code' = 1
                        /\ UNCHANGED <<ni, cd_all_good>>
                   ELSE /\ cd_all_good' = Aggregate(cd_all_good, r.status = "pass")
                        /\ ni' = ni + 1
                        /\ UNCHANGED <<pc, exit_code>>
  /\ UNCHANGED <<script, tree, di, all_good, lines, expected_header_guard,
                 ret, summary, cov>>

\* Lines 50 and 53: check_dir returns its all_good; "and" calls
\* check_dir('src') only when check_dir('include') returned True.
GuardsReturn ==
  /\ script = "guards"
  /\ pc = "walk"
  /\ ni = Len(tree[di])
  /\ IF di = 1 /\ cd_all_good
       THEN /\ di' = 2
            /\ ni' = 0
            /\ cd_all_good' = TRUE
            /\ UNCHANGED <<pc, all_good>>
       ELSE /\ all_good' = cd_all_good
            /\ pc' = "exit"
            /\ UNCHANGED <<di, ni, cd_all_good>>
  /\ UNCHANGED <<script, tree, checked, exit_code, lines,
                 expected_header_guard, ret, summary, cov>>

\* Line 54.
GuardsExit ==
  /\ script = "guards"
  /\ pc = "exit"
  /\ exit_code' = IF all_good THEN 0 ELSE 1
  /\ pc' = "done"
  /\ UNCHANGED <<script, tree, di, ni, all_good, cd_all_good, checked, lines,
                 expected_header_guard, ret, summary, cov>>

Next ==
  \/ CopyrightVisit
  \/ CopyrightNextDir
  \/ CopyrightExit
  \/ GuardsVisit
  \/ GuardsReturn
  \/ GuardsExit

Spec == Init /\ [][Next]_vars

-----------------------------------------------------------------------------
(* Properties of the two runs, under Spec *)

IsCandidate(n) ==
  IF script = "copyright" THEN IsCopyrightCandidate(n) ELSE IsGuardCandidate(n)

\* The candidate files of the tree, as <<root index, index in the listing>>.
Candidates ==
  {x \in (1..Len(Roots(script))) \X (0..MaxFiles) :
     x[2] < Len(tree[x[1]]) /\ IsCandidate(tree[x[1]][x[2] + 1].n)}

\* The per-file check of candidate x returns True.
Passes(x) ==
  LET e == tree[x[1]][x[2] + 1]
  IN  IF script = "copyright"
        THEN check_file(ReadLines(script, e.content)).status = "pass"
      ELSE check_guards(ReadLines(script, e.content),
                        ExpectedGuard(Str(Roots(script)[x[1]]), e.path, e.n)).status
             = "pass"

\* C1: both scripts exit with 0 exactly when every candidate file of every
\* root passes its check, and with 1 when some candidate does not.
C1_ExitCodeIsConjunction ==
  pc = "done" =>
    /\ exit_code \in {0, 1}
    /\ exit_code = 0 <=> \A x \in Candidates : Passes(x)

\* A run that exits 1 because the second file it checked failed, the first
\* having passed.
C1_Witness ==
  /\ pc = "done"
  /\ exit_code = 1
  /\ Len(checked) >= 2
  /\ checked[1].status = "pass"
  /\ checked[2].status = "fail"

\* How often candidate x was checked.
TimesChecked(x) ==
  Cardinality({k \in 1..Len(checked) : checked[k].d = x[1] /\ checked[k].i = x[2]})

\* C8: a run, unless an exception ends it, checks every candidate file of
\* every root exactly once, whatever failed before.
C8_EveryCandidateCheckedOnce ==
  (pc = "done" /\ \A k \in 1..Len(checked) : checked[k].status # "IndexError")
  => \A x \in Candidates : TimesChecked(x) = 1

\* The path of entry e below its root: the file's relative path.
RelPath(root, e) ==
  IF e.path = Str(root) THEN e.n
  ELSE SubSeq(e.path, Len(Str(root)) + 2, Len(e.path)) \o <<"/">> \o e.n

\* Separators and letter case folded away.
Fold(c) == IF c \in {"/", ".", "_"} THEN "_" ELSE LowerChar(c)

SameFolded(p, q) == Len(p) = Len(q) /\ \A k \in 1..Len(p) : Fold(p[k]) = Fold(q[k])

CheckedRel(k) == RelPath(guard_directories[checked[k].d],
                         tree[checked[k].d][checked[k].i + 1])

=============================================================================
